---- MODULE Spec2Model ----
(***************************************************************************)
(* A model of transformer/model.py and transformer/layers.py: the graph    *)
(* construction of create_model and the checkpoint remapping of            *)
(* load_openai_model.                                                      *)
(*                                                                         *)
(* Arrays are carried exactly, in run-length form: the flat (C-order)      *)
(* contents of an array are a sequence of runs, a run being n consecutive  *)
(* elements of one origin (elements lo .. lo+n-1 of archive params_<file>, *)
(* zeros, fresh random numbers, initializer values, or the values written  *)
(* by a training update).  Concatenation, splitting and reshaping act on   *)
(* the runs as numpy acts on the elements, so the hard-coded sizes of      *)
(* load_openai_model (768, 40478, 512, 12) are kept as they are.           *)
(***************************************************************************)
EXTENDS Integers, Sequences, FiniteSets, TLC

VARIABLES pc, call, ckpt, largs, shapes, offsets, init_params, err,
          args, layers, tensors, x, mask, i, weights, decoder, model, updates

vars == <<pc, call, ckpt, largs, shapes, offsets, init_params, err,
          args, layers, tensors, x, mask, i, weights, decoder, model, updates>>

loadVars == <<shapes, offsets, init_params>>
graphVars == <<layers, tensors, x, mask, i, weights, decoder, model>>

(***************************************************************************)
(* Program constants.                                                      *)
(***************************************************************************)
NumArchives == 10
OPENAI_DIM == 768
OPENAI_VOCAB == 40478
OPENAI_MAX_LEN == 512
OPENAI_HEADS == 12
OPENAI_LAYERS == 12

\* TextEncoder.SPECIAL_COUNT and TextEncoder.NUM_SEGMENTS are set in
\* data/vocab.py, which is not among the sources: the model takes a small
\* positive value for each and nothing below depends on which.
SPECIAL_COUNT == 3
NUM_SEGMENTS == 2

\* The unknown batch dimension of a symbolic tensor (None in Keras).
NoneDim == -1

(***************************************************************************)
(* Bounds of the inputs.                                                   *)
(***************************************************************************)
MaxDim == 4          \* create_model: embedding_dim in 1 .. MaxDim
MaxHeads == 3        \* create_model: num_heads in 1 .. MaxHeads
MaxLayers == 2       \* create_model: num_layers in 0 .. MaxLayers
MaxLen == 2          \* create_model: max_len in 1 .. MaxLen
MaxVocab == 2        \* create_model: vocab_size in 1 .. MaxVocab
MaxHid == 2          \* create_model: d_hid in 1 .. MaxHid
MaxManifestLen == 3  \* small manifests have 1 .. MaxManifestLen entries
MaxSlack == 1        \* archives hold total-MaxSlack .. total+MaxSlack numbers
MaxUpdates == 1      \* training updates applied to a returned model

Min(a, b) == IF a < b THEN a ELSE b
Max(a, b) == IF a > b THEN a ELSE b

(***************************************************************************)
(* numpy on run-length arrays.  An array is [shape, data].                 *)
(***************************************************************************)
Run(kind, file, lo, n) == [kind |-> kind, file |-> file, lo |-> lo, n |-> n]

Fill(kind, n) == IF n > 0 THEN <<Run(kind, 0, 0, n)>> ELSE <<>>

\* Sums and products over f[lo], ..., f[hi], by halves.
RECURSIVE SumRange(_, _, _)
SumRange(f, lo, hi) ==
    IF lo > hi THEN 0
    ELSE IF lo = hi THEN f[lo]
    ELSE SumRange(f, lo, (lo + hi) \div 2) + SumRange(f, (lo + hi) \div 2 + 1, hi)

RECURSIVE ProdRange(_, _, _)
ProdRange(f, lo, hi) ==
    IF lo > hi THEN 1
    ELSE IF lo = hi THEN f[lo]
    ELSE ProdRange(f, lo, (lo + hi) \div 2) * ProdRange(f, (lo + hi) \div 2 + 1, hi)

np_prod(shape) == ProdRange(shape, 1, Len(shape))

np_cumsum(xs) == [k \in 1..Len(xs) |-> SumRange(xs, 1, k)]

RunsLen(rs) == SumRange([k \in 1..Len(rs) |-> rs[k].n], 1, Len(rs))

RECURSIVE DropRuns(_, _)
DropRuns(rs, k) ==
    IF k <= 0 \/ rs = <<>> THEN rs
    ELSE IF Head(rs).n <= k THEN DropRuns(Tail(rs), k - Head(rs).n)
    ELSE <<[Head(rs) EXCEPT !.lo = @ + k, !.n = @ - k]>> \o Tail(rs)

RECURSIVE TakeRuns(_, _)
TakeRuns(rs, k) ==
    IF k <= 0 \/ rs = <<>> THEN <<>>
    ELSE IF Head(rs).n <= k THEN <<Head(rs)>> \o TakeRuns(Tail(rs), k - Head(rs).n)
    ELSE <<[Head(rs) EXCEPT !.n = k]>>

np_zeros(shape) == [shape |-> shape, data |-> Fill("zeros", np_prod(shape))]

np_randn(shape) == [shape |-> shape, data |-> Fill("randn", np_prod(shape))]

\* np.load(path + 'params_{}.npy'.format(n)): a flat archive of ckpt.lens[n+1]
\* numbers, element j of which is (file n, index j).
np_load(n) ==
    LET len == ckpt.lens[n + 1]
    IN  [shape |-> <<len>>,
         data |-> IF len > 0 THEN <<Run("file", n, 0, len)>> ELSE <<>>]

\* np.concatenate(arrays, 0) of one-dimensional arrays.
RECURSIVE ConcatData(_)
ConcatData(arrs) ==
    IF arrs = <<>> THEN <<>> ELSE Head(arrs).data \o ConcatData(Tail(arrs))

np_concatenate(arrs) ==
    [shape |-> <<RunsLen(ConcatData(arrs))>>, data |-> ConcatData(arrs)]

\* ary[st:end] of a one-dimensional array (Python clamps both ends).
PySlice(ary, st, end) ==
    LET n == ary.shape[1]
        s == Min(Max(st, 0), n)
        e == Min(Max(end, 0), n)
        m == IF e > s THEN e - s ELSE 0
    IN  [shape |-> <<m>>, data |-> TakeRuns(DropRuns(ary.data, s), m)]

np_split_shifted(ary, indices) ==
    LET div == <<0>> \o [k \in 1..Len(indices) |-> indices[k] + 1] \o <<ary.shape[1]>>
    IN  [k \in 1..Len(indices) + 1 |-> PySlice(ary, div[k], div[k + 1])]

\* np.split(ary, indices): the pieces between consecutive division points
\* 0, indices..., len(ary); one more piece than there are indices.
np_split(ary, indices) ==
    LET div == <<0>> \o indices \o <<ary.shape[1]>>
    IN  [k \in 1..Len(indices) + 1 |-> PySlice(ary, div[k], div[k + 1])]

\* xs[:-1]
ButLast(xs) == SubSeq(xs, 1, Len(xs) - 1)

\* param.reshape(shape) succeeds exactly when the element counts agree.
CanReshape(param, shape) == np_prod(shape) = np_prod(param.shape)

reshape(param, shape) == [shape |-> shape, data |-> param.data]

\* np.concatenate((a, b), axis=0): the operands must have the same number of
\* dimensions and agree on every dimension but the first.
CanConcatenateRows(a, b) ==
    /\ Len(a.shape) = Len(b.shape)
    /\ Len(a.shape) >= 1
    /\ \A d \in 2..Len(a.shape) : a.shape[d] = b.shape[d]

np_concatenate_rows(a, b) ==
    [shape |-> [a.shape EXCEPT ![1] = @ + b.shape[1]], data |-> a.data \o b.data]

(***************************************************************************)
(* The Keras graph under construction: the layers created so far, the      *)
(* symbolic tensors (each the output of one layer call, with the tensors   *)
(* it was called on and its static shape), the weights in the order the    *)
(* model enumerates them, and the error raised, if any.                    *)
(***************************************************************************)
EmptyGraph == [layers |-> <<>>, tensors |-> <<>>, weights |-> <<>>, err |-> "none"]

\* A layer named 'layer_{lid}/{name}'; the layers outside the encoder stack
\* (the inputs, the embedding, the decoder) have lid = -1.
Layer(lid, name, kind, units, n_head, ignore_mask) ==
    [lid |-> lid, name |-> name, kind |-> kind, units |-> units,
     n_head |-> n_head, ignore_mask |-> ignore_mask]

NewLayer(g, l) == [g EXCEPT !.layers = Append(@, l)]

LayerOf(g, lid, name) ==
    CHOOSE l \in {g.layers[k] : k \in 1..Len(g.layers)} : l.lid = lid /\ l.name = name

Emit(g, lid, name, inputs, aslist, shape) ==
    [g EXCEPT !.tensors = Append(@, [lid |-> lid, layer |-> name, inputs |-> inputs,
                                      aslist |-> aslist, shape |-> shape])]

\* self.add_weight(...): a new weight holding its initializer's values.
add_weight(g, lid, name, w, shape) ==
    [g EXCEPT !.weights = Append(@, [lid |-> lid, layer |-> name, w |-> w, shape |-> shape,
                                      data |-> Fill("init", np_prod(shape))])]

\* The tensor the last layer call returned.
Out(g) == Len(g.tensors)

ShapeOf(g, t) == g.tensors[t].shape

\* Input(batch_shape=shape, name=name)
Input(g, name, shape) ==
    Emit(NewLayer(g, Layer(-1, name, "InputLayer", 0, 0, FALSE)), -1, name, <<>>, FALSE, shape)

\* Conv1D(filters, 1) called on t: kernel (1, channels, filters), bias (filters,);
\* a kernel of width 1 keeps the sequence length.
Conv1D_call(g, lid, name, t) ==
    LET l == LayerOf(g, lid, name)
        s == ShapeOf(g, t)
        g1 == add_weight(g, lid, name, "kernel", <<1, s[3], l.units>>)
        g2 == add_weight(g1, lid, name, "bias", <<l.units>>)
    IN  Emit(g2, lid, name, <<t>>, FALSE, <<s[1], s[2], l.units>>)

Dropout_call(g, lid, name, t) == Emit(g, lid, name, <<t>>, FALSE, ShapeOf(g, t))

Add_call(g, lid, name, ts) == Emit(g, lid, name, ts, TRUE, ShapeOf(g, ts[1]))

(***************************************************************************)
(* transformer/layers.py                                                   *)
(***************************************************************************)
SelfAttention_compute_output_shape_keep(xshape) == <<xshape[1], xshape[2], xshape[3]>>

\* SelfAttention.compute_output_shape, on the shape x of the projected
\* tensor: (x[0], x[1], x[2] // 3).
SelfAttention_compute_output_shape(xshape) == <<xshape[1], xshape[2], xshape[3] \div 3>>

\* SelfAttention.call and compute_output_shape pick the projected tensor by
\* self.ignore_mask: inputs itself when set, inputs[0] when not.  Called on
\* the other form (a list when ignore_mask is set, a bare tensor when not)
\* the indexing fails.
SelfAttention_call(g, lid, inputs, aslist) ==
    LET l == LayerOf(g, lid, "self_attention")
    IN  IF l.ignore_mask = aslist
        THEN [g EXCEPT !.err = "TypeError"]
        ELSE Emit(g, lid, "self_attention", inputs, aslist,
                  SelfAttention_compute_output_shape(ShapeOf(g, inputs[1])))

\* LayerNormalization.build adds gamma and beta of shape input_shape[-1:];
\* compute_output_shape returns input_shape.
LayerNormalization_call(g, lid, name, t) ==
    LET s == ShapeOf(g, t)
        g1 == add_weight(g, lid, name, "gamma", <<s[Len(s)]>>)
        g2 == add_weight(g1, lid, name, "beta", <<s[Len(s)]>>)
    IN  Emit(g2, lid, name, <<t>>, FALSE, s)

\* Gelu.compute_output_shape returns input_shape.
Gelu_call(g, lid, name, t) == Emit(g, lid, name, <<t>>, FALSE, ShapeOf(g, t))

\* PositionIdGenerator.compute_output_shape: (1, input_shape[1]).
PositionIdGenerator_call(g, name, t) ==
    Emit(NewLayer(g, Layer(-1, name, "PositionIdGenerator", 0, 0, FALSE)),
         -1, name, <<t>>, FALSE, <<1, ShapeOf(g, t)[2]>>)

\* K.transpose of a two-dimensional array: the shape reversed, the elements
\* read in the other order.
Transpose(a) == [shape |-> <<a.shape[2], a.shape[1]>>, data |-> a.data, t |-> TRUE]

\* The index, in the enumeration of the weights, of tied_to.weights[0].
TiedIndex(ws) ==
    CHOOSE k \in 1..Len(ws) : ws[k].layer = "TokenEmbedding" /\ ws[k].w = "embeddings"

NoKernel == [op |-> "none", of |-> 0, val |-> Transpose([shape |-> <<0, 0>>, data |-> <<>>])]

TiedEmbeddingsTransposed_build_copy(ws) ==
    [op |-> "const", of |-> 0, val |-> Transpose(ws[TiedIndex(ws)])]

\* TiedEmbeddingsTransposed.build: self.kernel = K.transpose(self.tied_to.weights[0]),
\* a tensor of the graph that reads the variable whenever it is evaluated.
TiedEmbeddingsTransposed_build(ws) ==
    [op |-> "transpose", of |-> TiedIndex(ws), val |-> NoKernel.val]

\* What the decoder multiplies by, in the current state of the weights.
KernelValue(k, ws) ==
    IF k.op = "transpose" THEN Transpose([shape |-> ws[k.of].shape, data |-> ws[k.of].data])
    ELSE k.val

(***************************************************************************)
(* transformer/model.py: MultiHeadAttention, PositionWiseFF, EncoderLayer. *)
(* The dropout rates are left out: they change no shape, name or order.    *)
(***************************************************************************)
MultiHeadAttention_init_noassert(g, n_state, n_head, ignore_mask, layer_id) ==
    LET g1 == NewLayer(g, Layer(layer_id, "c_attn", "Conv1D", 3 * n_state, 0, FALSE))
        g2 == NewLayer(g1, Layer(layer_id, "self_attention", "SelfAttention",
                                 n_state, n_head, ignore_mask))
    IN  NewLayer(g2, Layer(layer_id, "c_attn_proj", "Conv1D", n_state, 0, FALSE))

MultiHeadAttention_init_lateassert(g, n_state, n_head, ignore_mask, layer_id) ==
    LET g1 == NewLayer(g, Layer(layer_id, "c_attn", "Conv1D", 3 * n_state, 0, FALSE))
    IN  IF n_state % n_head # 0
        THEN [g1 EXCEPT !.err = "AssertionError"]
        ELSE MultiHeadAttention_init_noassert(g, n_state, n_head, ignore_mask, layer_id)

\* MultiHeadAttention.__init__: the assertion, then c_attn, self_attn, c_attn_proj.
MultiHeadAttention_init(g, n_state, n_head, ignore_mask, layer_id) ==
    IF n_state % n_head # 0
    THEN [g EXCEPT !.err = "AssertionError"]
    ELSE LET g1 == NewLayer(g, Layer(layer_id, "c_attn", "Conv1D", 3 * n_state, 0, FALSE))
             g2 == NewLayer(g1, Layer(layer_id, "self_attention", "SelfAttention",
                                      n_state, n_head, ignore_mask))
         IN  NewLayer(g2, Layer(layer_id, "c_attn_proj", "Conv1D", n_state, 0, FALSE))

MultiHeadAttention_call_nomask(g, layer_id, t, m) ==
    LET c_attn(h) == Conv1D_call(h, layer_id, "c_attn", t)
        self_attn(h) == SelfAttention_call(h, layer_id, <<Out(h)>>, FALSE)
        c_attn_proj(h) == IF h.err # "none" THEN h
                          ELSE Conv1D_call(h, layer_id, "c_attn_proj", Out(h))
    IN  c_attn_proj(self_attn(c_attn(g)))

\* MultiHeadAttention.__call__(x, mask); m = 0 stands for mask is None.
\* Each sub-layer is called on the output of the one before (Out of the graph
\* it is handed); a failed call of self_attn ends the call.
MultiHeadAttention_call(g, layer_id, t, m) ==
    LET c_attn(h) == Conv1D_call(h, layer_id, "c_attn", t)
        self_attn(h) == IF m = 0
                        THEN SelfAttention_call(h, layer_id, <<Out(h)>>, FALSE)
                        ELSE SelfAttention_call(h, layer_id, <<Out(h), m>>, TRUE)
        c_attn_proj(h) == IF h.err # "none" THEN h
                          ELSE Conv1D_call(h, layer_id, "c_attn_proj", Out(h))
    IN  c_attn_proj(self_attn(c_attn(g)))

\* PositionWiseFF.__init__
PositionWiseFF_init(g, n_state, d_hid, layer_id) ==
    LET g1 == NewLayer(g, Layer(layer_id, "c_fc", "Conv1D", d_hid, 0, FALSE))
        g2 == NewLayer(g1, Layer(layer_id, "gelu", "Gelu", 0, 0, FALSE))
    IN  NewLayer(g2, Layer(layer_id, "c_ffn_proj", "Conv1D", n_state, 0, FALSE))

\* PositionWiseFF.__call__: c_ffn_proj(activation(c_fc(x)))
PositionWiseFF_call(g, layer_id, t) ==
    LET c_fc(h) == Conv1D_call(h, layer_id, "c_fc", t)
        activation(h) == Gelu_call(h, layer_id, "gelu", Out(h))
        c_ffn_proj(h) == Conv1D_call(h, layer_id, "c_ffn_proj", Out(h))
    IN  c_ffn_proj(activation(c_fc(g)))

\* EncoderLayer.__init__
EncoderLayer_init(g, n_state, n_head, d_hid, ignore_mask, layer_id) ==
    LET g1 == MultiHeadAttention_init(g, n_state, n_head, ignore_mask, layer_id)
        g2 == NewLayer(g1, Layer(layer_id, "ln_1_drop", "Dropout", 0, 0, FALSE))
        g3 == NewLayer(g2, Layer(layer_id, "ln_1_add", "Add", 0, 0, FALSE))
        g4 == NewLayer(g3, Layer(layer_id, "ln_1", "LayerNormalization", 0, 0, FALSE))
        g5 == PositionWiseFF_init(g4, n_state, d_hid, layer_id)
        g6 == NewLayer(g5, Layer(layer_id, "ln_2_drop", "Dropout", 0, 0, FALSE))
        g7 == NewLayer(g6, Layer(layer_id, "ln_2_add", "Add", 0, 0, FALSE))
    IN  IF g1.err # "none" THEN g1
        ELSE NewLayer(g7, Layer(layer_id, "ln_2", "LayerNormalization", 0, 0, FALSE))

\* A pre-norm block: each normalization before its sub-layer, the residual
\* taken around both.
EncoderLayer_call_prenorm(g, layer_id, t, m) ==
    LET ln1(h) == LayerNormalization_call(h, layer_id, "ln_1", t)
        attention(h) == MultiHeadAttention_call(h, layer_id, Out(h), m)
        drop1(h) == Dropout_call(h, layer_id, "ln_1_drop", Out(h))
        add1(h) == Add_call(h, layer_id, "ln_1_add", <<t, Out(h)>>)
        ga == attention(ln1(g))
        gs == add1(drop1(ga))
        ln2(h) == LayerNormalization_call(h, layer_id, "ln_2", Out(h))
        ffn(h) == PositionWiseFF_call(h, layer_id, Out(h))
        drop2(h) == Dropout_call(h, layer_id, "ln_2_drop", Out(h))
        add2(h) == Add_call(h, layer_id, "ln_2_add", <<Out(gs), Out(h)>>)
    IN  IF ga.err # "none" THEN ga ELSE add2(drop2(ffn(ln2(gs))))

\* EncoderLayer.__call__(x, mask):
\*   a = attention(x, mask); n = ln1(add1([x, drop1(a)]));
\*   f = ffn(n);             return ln2(add2([n, drop2(f)]))
\* ga is the graph after a, gn the graph after n; each layer is called on the
\* output of the call before it, the two Adds on the pairs the source names.
EncoderLayer_call(g, layer_id, t, m) ==
    LET attention(h) == MultiHeadAttention_call(h, layer_id, t, m)
        drop1(h) == Dropout_call(h, layer_id, "ln_1_drop", Out(h))
        add1(h) == Add_call(h, layer_id, "ln_1_add", <<t, Out(h)>>)
        ln1(h) == LayerNormalization_call(h, layer_id, "ln_1", Out(h))
        ga == attention(g)
        gn == ln1(add1(drop1(ga)))
        ffn(h) == PositionWiseFF_call(h, layer_id, Out(h))
        drop2(h) == Dropout_call(h, layer_id, "ln_2_drop", Out(h))
        add2(h) == Add_call(h, layer_id, "ln_2_add", <<Out(gn), Out(h)>>)
        ln2(h) == LayerNormalization_call(h, layer_id, "ln_2", Out(h))
    IN  IF ga.err # "none" THEN ga ELSE ln2(add2(drop2(ffn(gn))))

\* Embedding (transformer/embedding.py) called on (tokens, segment_ids,
\* pos_ids): one representation of width embedding_dim per position, from
\* the segment, position and token tables, enumerated in that order.
Embedding_call(g, embedding_dim, vocab_size, max_len, tok, seg, pos) ==
    LET g0 == NewLayer(g, Layer(-1, "Embedding", "Embedding", embedding_dim, 0, FALSE))
        g1 == add_weight(g0, -1, "SegmentEmbedding", "embeddings", <<NUM_SEGMENTS, embedding_dim>>)
        g2 == add_weight(g1, -1, "PositionEmbedding", "embeddings", <<max_len, embedding_dim>>)
        g3 == add_weight(g2, -1, "TokenEmbedding", "embeddings", <<vocab_size, embedding_dim>>)
    IN  Emit(g3, -1, "Embedding", <<tok, seg, pos>>, FALSE,
             <<ShapeOf(g, tok)[1], ShapeOf(g, tok)[2], embedding_dim>>)

\* TimeDistributed(TiedEmbeddingsTransposed(token_emb, units, name='TiedDecoder'))(x):
\* Dense.build makes a kernel and a bias; TiedEmbeddingsTransposed.build then
\* keeps only the bias among the layer's weights.  Dense maps the last
\* dimension to units, at every time step.
TiedDecoder_call(g, units, t) ==
    LET g0 == NewLayer(g, Layer(-1, "TiedDecoder", "TiedEmbeddingsTransposed", units, 0, FALSE))
        g1 == add_weight(g0, -1, "TiedDecoder", "bias", <<units>>)
        s == ShapeOf(g, t)
    IN  Emit(g1, -1, "TiedDecoderDistributed", <<t>>, FALSE, <<s[1], s[2], units>>)

(***************************************************************************)
(* The inputs: the arguments of a create_model call, and the checkpoint    *)
(* directory (the shape manifest and the lengths of the ten archives) and  *)
(* flags of a load_openai_model call.                                      *)
(***************************************************************************)
CreateArgs ==
    [embedding_dim : 1..MaxDim, vocab_size : 1..MaxVocab, max_len : 1..MaxLen,
     num_heads : 1..MaxHeads, num_layers : 0..MaxLayers, d_hid : 1..MaxHid,
     ignore_mask : BOOLEAN, debug : BOOLEAN]

NoArgs ==
    [embedding_dim |-> 0, vocab_size |-> 0, max_len |-> 0, num_heads |-> 0,
     num_layers |-> 0, d_hid |-> 0, ignore_mask |-> FALSE, debug |-> FALSE]

\* The shapes of one block of the checkpoint: c_attn, c_attn_proj, ln_1,
\* c_fc, c_ffn_proj, ln_2.
BlockShapes(e, h) ==
    << <<1, e, 3 * e>>, <<3 * e>>, <<1, e, e>>, <<e>>, <<e>>, <<e>>,
       <<1, e, h>>, <<h>>, <<1, h, e>>, <<e>>, <<e>>, <<e>> >>

RECURSIVE Repeat(_, _)
Repeat(xs, n) == IF n = 0 THEN <<>> ELSE xs \o Repeat(xs, n - 1)

\* The manifest of the checkpoint the loader is written for: the position
\* table, the token table, then twelve blocks.
OpenAIManifest ==
    << <<OPENAI_MAX_LEN, OPENAI_DIM>>, <<OPENAI_VOCAB, OPENAI_DIM>> >>
        \o Repeat(BlockShapes(OPENAI_DIM, 4 * OPENAI_DIM), OPENAI_LAYERS)

\* That manifest and mis-sized variants of it.
ManifestVariants ==
    LET M == OpenAIManifest
    IN  {M, ButLast(M), Append(M, <<OPENAI_DIM>>),
         [M EXCEPT ![2] = <<OPENAI_VOCAB, OPENAI_DIM - 1>>],
         [M EXCEPT ![2] = <<OPENAI_VOCAB * OPENAI_DIM>>],
         [M EXCEPT ![2] = <<OPENAI_VOCAB - 1, OPENAI_DIM>>],
         [M EXCEPT ![5] = <<OPENAI_DIM, OPENAI_DIM>>]}
        \cup {[M EXCEPT ![p][1] = @ + 1] : p \in {1, 3, Len(M)}}

SmallShapes == {<<2>>, <<1, OPENAI_DIM>>, <<2, 3>>}

SmallManifests == UNION {[1..n -> SmallShapes] : n \in 1..MaxManifestLen}

Manifests == ManifestVariants \cup SmallManifests

ManifestTotal(m) == SumRange([k \in 1..Len(m) |-> np_prod(m[k])], 1, Len(m))

Spread(t) ==
    [k \in 1..NumArchives |-> (t \div NumArchives) + (IF k <= t % NumArchives THEN 1 ELSE 0)]

\* The archives of a checkpoint with manifest m: the numbers the manifest
\* counts, up to MaxSlack fewer or more, spread evenly over the ten archives;
\* or exactly those numbers, all in the first archive or all in the last.
Layouts(m) ==
    {Spread(t) : t \in Max(0, ManifestTotal(m) - MaxSlack)..(ManifestTotal(m) + MaxSlack)}
        \cup {[k \in 1..NumArchives |-> IF k = 1 THEN ManifestTotal(m) ELSE 0],
              [k \in 1..NumArchives |-> IF k = NumArchives THEN ManifestTotal(m) ELSE 0]}

Checkpoints == UNION {{[shapes |-> m, lens |-> l] : l \in Layouts(m)} : m \in Manifests}

NoCheckpoint == [shapes |-> <<>>, lens |-> [k \in 1..NumArchives |-> 0]]

NoError == [type |-> "none", at |-> "none"]

NoModel == [exists |-> FALSE, inputs |-> <<>>, outputs |-> <<>>]

NoDecoder == [built |-> FALSE, kernel |-> NoKernel, out |-> 0]

Init ==
    /\ call \in {"create_model", "load_openai_model"}
    /\ \/ /\ call = "create_model"
          /\ args \in CreateArgs
          /\ largs = [debug |-> args.debug, ignore_mask |-> args.ignore_mask]
          /\ ckpt = NoCheckpoint
          /\ pc = "cm"
       \/ /\ call = "load_openai_model"
          /\ args = NoArgs
          /\ largs \in [debug : BOOLEAN, ignore_mask : BOOLEAN]
          /\ ckpt \in Checkpoints
          /\ pc = "lm_shapes"
    /\ shapes = <<>>
    /\ offsets = <<>>
    /\ init_params = <<>>
    /\ err = NoError
    /\ layers = <<>>
    /\ tensors = <<>>
    /\ x = 0
    /\ mask = 0
    /\ i = 0
    /\ weights = <<>>
    /\ decoder = NoDecoder
    /\ model = NoModel
    /\ updates = 0

Raise(type, at) ==
    /\ pc' = "error"
    /\ err' = [type |-> type, at |-> at]

(***************************************************************************)
(* create_model                                                            *)
(***************************************************************************)
\* Lines 72-73, from iteration k on: x = EncoderLayer(..., i)(x, mask), until
\* num_layers are stacked or a construction fails.
RECURSIVE EncoderStack(_, _, _, _, _)
EncoderStack(g, a, xid, m, k) ==
    IF k >= a.num_layers THEN [g |-> g, x |-> xid, i |-> k]
    ELSE LET call_layer(h) == IF h.err # "none" THEN h ELSE EncoderLayer_call(h, k, xid, m)
             rest(h) == IF h.err # "none" THEN [g |-> h, x |-> xid, i |-> k]
                        ELSE EncoderStack(h, a, Out(h), m, k + 1)
         IN  rest(call_layer(EncoderLayer_init(g, a.embedding_dim, a.num_heads, a.d_hid,
                                               a.ignore_mask, k)))

\* inputs=[tokens, segment_ids] + ([] if ignore_mask else [mask])
ModelInputs(ignore_mask, tok, seg, m) ==
    <<tok, seg>> \o (IF ignore_mask THEN <<>> ELSE <<m>>)

\* create_model(...): the inputs (the mask first, unless ignored), the
\* position ids and the embedding (lines 62-71); the encoder stack (72-73);
\* the tied decoder at every position of x (74-75); the model (78).  The
\* result holds the graph as it stands when the call returns or fails.
create_model(a) ==
    LET g0 == IF a.ignore_mask THEN EmptyGraph
              ELSE Input(EmptyGraph, "MaskInput", <<NoneDim, 1, a.max_len, a.max_len>>)
        m  == IF a.ignore_mask THEN 0 ELSE Out(g0)
        g1 == Input(g0, "TokenInput", <<NoneDim, a.max_len>>)
        g2 == Input(g1, "SegmentInput", <<NoneDim, a.max_len>>)
        g3 == PositionIdGenerator_call(g2, "PositionInput", Out(g1))
        embedding(h) == Embedding_call(h, a.embedding_dim, a.vocab_size, a.max_len,
                                       Out(g1), Out(g2), Out(h))
        stack(h) == EncoderStack(h, a, Out(h), m, 0)
        Model(st, gd) ==
            IF st.g.err # "none"
            THEN [g |-> st.g, x |-> st.x, mask |-> m, i |-> st.i, decoder |-> NoDecoder,
                  model |-> NoModel]
            ELSE [g |-> gd, x |-> st.x, mask |-> m, i |-> st.i,
                  decoder |-> [built |-> TRUE,
                               kernel |-> TiedEmbeddingsTransposed_build(gd.weights),
                               out |-> Out(gd)],
                  model |-> [exists |-> TRUE,
                             inputs |-> ModelInputs(a.ignore_mask, Out(g1), Out(g2), m),
                             outputs |-> <<st.x, Out(gd)>>]]
        decode(st) == Model(st, IF st.g.err # "none" THEN st.g
                                ELSE TiedDecoder_call(st.g, a.vocab_size, st.x))
    IN  decode(stack(embedding(g3)))

\* What a create_model call leaves behind, and where control goes: to next
\* when a model is returned.
Created(r, next) ==
    /\ layers' = r.g.layers
    /\ tensors' = r.g.tensors
    /\ weights' = r.g.weights
    /\ x' = r.x
    /\ mask' = r.mask
    /\ i' = r.i
    /\ decoder' = r.decoder
    /\ model' = r.model
    /\ IF r.g.err # "none"
       THEN Raise(r.g.err, "create_model")
       ELSE /\ pc' = next
            /\ UNCHANGED err

\* A call of create_model.
CreateModel ==
    /\ pc = "cm"
    /\ Created(create_model(args), "done")
    /\ UNCHANGED <<call, ckpt, largs, loadVars, args, updates>>

(***************************************************************************)
(* load_openai_model                                                       *)
(***************************************************************************)
\* Lines 84-85: the manifest, and the cumulative element counts.
LoadShapes ==
    /\ pc = "lm_shapes"
    /\ shapes' = ckpt.shapes
    /\ offsets' = np_cumsum([k \in 1..Len(ckpt.shapes) |-> np_prod(ckpt.shapes[k])])
    /\ pc' = "lm_archives"
    /\ UNCHANGED <<call, ckpt, largs, init_params, err, args, graphVars, updates>>

\* Line 86: [np.load(path + 'params_{}.npy'.format(n)) for n in range(10)]
LoadArchives ==
    /\ pc = "lm_archives"
    /\ init_params' = [k \in 1..NumArchives |-> np_load(k - 1)]
    /\ pc' = "lm_split"
    /\ UNCHANGED <<call, ckpt, largs, shapes, offsets, err, args, graphVars, updates>>

\* Line 87: np.split(np.concatenate(init_params, 0), offsets)[:-1]
SplitParams ==
    /\ pc = "lm_split"
    /\ init_params' = ButLast(np_split(np_concatenate(init_params), offsets))
    /\ pc' = "lm_reshape"
    /\ UNCHANGED <<call, ckpt, largs, shapes, offsets, err, args, graphVars, updates>>

\* Line 88: [param.reshape(shape) for param, shape in zip(init_params, shapes)]
ReshapeParams ==
    /\ pc = "lm_reshape"
    /\ LET n == Min(Len(init_params), Len(shapes))
       IN  IF \A k \in 1..n : CanReshape(init_params[k], shapes[k])
           THEN /\ init_params' = [k \in 1..n |-> reshape(init_params[k], shapes[k])]
                /\ pc' = "lm_special"
                /\ UNCHANGED err
           ELSE /\ Raise("ValueError", "reshape")
                /\ UNCHANGED init_params
    /\ UNCHANGED <<call, ckpt, largs, shapes, offsets, args, graphVars, updates>>

\* Lines 90-91: init_params[1] = np.concatenate((init_params[1],
\*     np.random.randn(SPECIAL_COUNT, 768) * 0.02), axis=0)
add_special_tokens(params) ==
    [params EXCEPT ![2] = np_concatenate_rows(@, np_randn(<<SPECIAL_COUNT, OPENAI_DIM>>))]

AppendSpecial ==
    /\ pc = "lm_special"
    /\ IF Len(init_params) < 2
       THEN /\ Raise("IndexError", "special")
            /\ UNCHANGED init_params
       ELSE IF ~CanConcatenateRows(init_params[2], np_randn(<<SPECIAL_COUNT, OPENAI_DIM>>))
       THEN /\ Raise("ValueError", "special")
            /\ UNCHANGED init_params
       ELSE /\ init_params' = add_special_tokens(init_params)
            /\ pc' = "lm_segment"
            /\ UNCHANGED err
    /\ UNCHANGED <<call, ckpt, largs, shapes, offsets, args, graphVars, updates>>

add_segment_embedding_last(params) ==
    params \o <<np_zeros(<<NUM_SEGMENTS, OPENAI_DIM>>)>>

\* Line 92: [np.zeros((NUM_SEGMENTS, 768))] + init_params
add_segment_embedding(params) ==
    <<np_zeros(<<NUM_SEGMENTS, OPENAI_DIM>>)>> \o params

PrependSegment ==
    /\ pc = "lm_segment"
    /\ init_params' = add_segment_embedding(init_params)
    /\ pc' = "lm_bias"
    /\ UNCHANGED <<call, ckpt, largs, shapes, offsets, err, args, graphVars, updates>>

add_decoder_bias_unextended(params) ==
    params \o <<np_zeros(<<OPENAI_VOCAB>>)>>

\* Line 93: init_params + [np.zeros((40478 + SPECIAL_COUNT,))]
add_decoder_bias(params) ==
    params \o <<np_zeros(<<OPENAI_VOCAB + SPECIAL_COUNT>>)>>

AppendBias ==
    /\ pc = "lm_bias"
    /\ init_params' = add_decoder_bias(init_params)
    /\ pc' = "lm_create"
    /\ UNCHANGED <<call, ckpt, largs, shapes, offsets, err, args, graphVars, updates>>

\* Lines 94-97: the arguments load_openai_model passes to create_model.
LoadCreateArgs(la) ==
    [embedding_dim |-> OPENAI_DIM, vocab_size |-> OPENAI_VOCAB + SPECIAL_COUNT,
     max_len |-> OPENAI_MAX_LEN, num_heads |-> OPENAI_HEADS, num_layers |-> OPENAI_LAYERS,
     d_hid |-> 4 * OPENAI_DIM, ignore_mask |-> la.ignore_mask, debug |-> la.debug]

\* Lines 94-97: model = create_model(...)
CallCreateModel ==
    /\ pc = "lm_create"
    /\ args' = LoadCreateArgs(largs)
    /\ Created(create_model(LoadCreateArgs(largs)), "lm_check")
    /\ UNCHANGED <<call, ckpt, largs, loadVars, updates>>

AssertionsPass_count_only(ws, params) == Len(ws) = Len(params)

\* Lines 99-101: assert len(model.weights) == len(init_params), then
\* assert a.shape == b.shape for each pair.
AssertionsPass(ws, params) ==
    /\ Len(ws) = Len(params)
    /\ \A k \in 1..Min(Len(ws), Len(params)) : ws[k].shape = params[k].shape

\* Lines 98-101: the assertions, made only when debug is set.
DebugCheck ==
    /\ pc = "lm_check"
    /\ IF largs.debug /\ ~AssertionsPass(weights, init_params)
       THEN Raise("AssertionError", "check")
       ELSE /\ pc' = "lm_set_weights"
            /\ UNCHANGED err
    /\ UNCHANGED <<call, ckpt, largs, loadVars, args, graphVars, updates>>

\* model.set_weights(params): Keras pairs the weights with the values in
\* order, as far as both go, and assigns all of them or, when a value has not
\* the shape of its weight, none.
CanSetWeights(ws, params) ==
    \A k \in 1..Min(Len(ws), Len(params)) : ws[k].shape = params[k].shape

set_weights(ws, params) ==
    [k \in 1..Len(ws) |-> IF k <= Len(params) THEN [ws[k] EXCEPT !.data = params[k].data]
                          ELSE ws[k]]

\* Lines 102-103.
SetWeights ==
    /\ pc = "lm_set_weights"
    /\ IF CanSetWeights(weights, init_params)
       THEN /\ weights' = set_weights(weights, init_params)
            /\ pc' = "done"
            /\ UNCHANGED err
       ELSE /\ Raise("ValueError", "set_weights")
            /\ UNCHANGED weights
    /\ UNCHANGED <<call, ckpt, largs, loadVars, args, layers, tensors, x, mask, i,
                   decoder, model, updates>>

\* A training update of a returned model (outside these files): every
\* trainable weight is assigned new values.
TrainStep ==
    /\ pc = "done"
    /\ model.exists
    /\ updates < MaxUpdates
    /\ updates' = updates + 1
    /\ weights' = [k \in 1..Len(weights) |->
                     [weights[k] EXCEPT !.data = <<Run("train", updates + 1, 0,
                                                       np_prod(weights[k].shape))>>]]
    /\ UNCHANGED <<pc, call, ckpt, largs, loadVars, err, args, layers, tensors, x, mask, i,
                   decoder, model>>

Next ==
    \/ CreateModel
    \/ LoadShapes
    \/ LoadArchives
    \/ SplitParams
    \/ ReshapeParams
    \/ AppendSpecial
    \/ PrependSegment
    \/ AppendBias
    \/ CallCreateModel
    \/ DebugCheck
    \/ SetWeights
    \/ TrainStep

Spec == Init /\ [][Next]_vars

(***************************************************************************)
(* Notions the properties are stated in, computed from the inputs alone.   *)
(***************************************************************************)
InLoad == call = "load_openai_model"

Manifest == ckpt.shapes

\* base + f[lo], base + f[lo] + f[lo + 1], ..., up to f[hi].
RECURSIVE PrefixSums(_, _, _, _)
PrefixSums(f, lo, hi, base) ==
    IF lo > hi THEN <<>>
    ELSE IF lo = hi THEN <<base + f[lo]>>
    ELSE LET left == PrefixSums(f, lo, (lo + hi) \div 2, base)
         IN  left \o PrefixSums(f, (lo + hi) \div 2 + 1, hi, left[Len(left)])

\* <<off_0, off_1, ..., off_N>>, off_k being the element count of the first
\* k manifest entries: off_k is Offs[k + 1].
Offs ==
    <<0>> \o PrefixSums([j \in 1..Len(Manifest) |-> np_prod(Manifest[j])], 1, Len(Manifest), 0)

\* <<0, len(params_0), len(params_0) + len(params_1), ...>>: where each
\* archive starts in F, the ten archives one after the other in file order.
Starts == <<0>> \o PrefixSums(ckpt.lens, 1, NumArchives, 0)

\* len(F)
FLen == Starts[NumArchives + 1]

\* The archive, and the index in it, of element p of F (p counted from 0),
\* starts being Starts.
FLocate(starts, p) ==
    LET f == CHOOSE j \in 0..(NumArchives - 1) : starts[j + 1] <= p /\ p < starts[j + 2]
    IN  <<f, p - starts[f + 1]>>

\* data holds exactly F[lo], ..., F[lo + n - 1], in that order.
IsSlice(starts, data, lo, n) ==
    LET at == <<0>> \o PrefixSums([r \in 1..Len(data) |-> data[r].n], 1, Len(data), 0)
    IN  /\ at[Len(data) + 1] = n
        /\ lo + n <= starts[NumArchives + 1]
        /\ \A r \in 1..Len(data) :
              /\ data[r].kind = "file"
              /\ data[r].n > 0
              /\ FLocate(starts, lo + at[r]) = <<data[r].file, data[r].lo>>
              /\ FLocate(starts, lo + at[r] + data[r].n - 1)
                     = <<data[r].file, data[r].lo + data[r].n - 1>>

AllOfKind(data, kind, n) ==
    /\ SumRange([r \in 1..Len(data) |-> data[r].n], 1, Len(data)) = n
    /\ \A r \in 1..Len(data) : data[r].kind = kind

\* The parameter list is assembled: lines 84-93 have run.
Assembled ==
    /\ InLoad
    /\ \/ pc \in {"lm_create", "lm_check", "lm_set_weights", "done"}
       \/ pc = "error" /\ err.at \in {"create_model", "check", "set_weights"}

WeightsMatch ==
    /\ Len(weights) = Len(init_params)
    /\ \A k \in 1..Len(weights) :
          k <= Len(init_params) /\ weights[k].shape = init_params[k].shape

NoWeightOverwritten ==
    \A k \in 1..Len(weights) : \A r \in 1..Len(weights[k].data) : weights[k].data[r].kind = "init"

Divisible == args.embedding_dim % args.num_heads = 0

\* The tensor layer 'layer_{l}/{name}' returned.
T(l, name) == CHOOSE t \in 1..Len(tensors) : tensors[t].lid = l /\ tensors[t].layer = name

\* The input of encoder layer l: the embedding, or the layer before.
LayerInput(l) == IF l = 0 THEN T(-1, "Embedding") ELSE T(l - 1, "ln_2")

TokenEmbedding ==
    LET k == CHOOSE j \in 1..Len(weights) : weights[j].layer = "TokenEmbedding"
    IN  [shape |-> weights[k].shape, data |-> weights[k].data]

(***************************************************************************)
(* C1.  load_openai_model with debug=True, once create_model has returned: *)
(* set_weights is reached, and a model returned, exactly when the          *)
(* assembled list has as many entries as the model has weights and every   *)
(* entry has the shape of its weight; otherwise an AssertionError is       *)
(* raised at the check, with no weight of the model overwritten.           *)
(***************************************************************************)
C1_DebugCheckGuardsSetWeights ==
    (InLoad /\ largs.debug /\ model.exists) =>
        /\ pc \in {"lm_set_weights", "done"} => WeightsMatch
        /\ WeightsMatch => pc # "error"
        /\ pc = "error" => /\ err = [type |-> "AssertionError", at |-> "check"]
                           /\ ~WeightsMatch
                           /\ NoWeightOverwritten

\* The check fails on a shape although the counts agree.
C1_Witness ==
    /\ InLoad /\ largs.debug /\ pc = "error" /\ err.at = "check"
    /\ Len(weights) = Len(init_params)

(***************************************************************************)
(* C2.  Once TiedEmbeddingsTransposed.build has run, the decoder's kernel  *)
(* is the transpose of the token embedding's weight as it is now: after    *)
(* set_weights in load_openai_model and after training updates too.        *)
(***************************************************************************)
C2_TiedKernelIsLiveTranspose ==
    decoder.built =>
        KernelValue(decoder.kernel, weights) =
            [shape |-> <<TokenEmbedding.shape[2], TokenEmbedding.shape[1]>>,
             data |-> TokenEmbedding.data, t |-> TRUE]

\* A loaded model, its weights overwritten by set_weights and then trained.
C2_Witness ==
    /\ InLoad /\ pc = "done" /\ decoder.built /\ updates >= 1
    /\ TokenEmbedding.data[1].kind = "train"

(***************************************************************************)
(* C3.  The assembled list of load_openai_model, for a manifest of N >= 2  *)
(* entries, has N + 2 entries: first an all-zero segment embedding; then   *)
(* the N checkpoint parameters in manifest order, each with its manifest   *)
(* shape and its slice of the archives, but for the second (the token      *)
(* embedding), which has SPECIAL_COUNT new rows after its own; last an     *)
(* all-zero decoder bias.                                                  *)
(***************************************************************************)
C3_AssembledList ==
    (Assembled /\ pc = "lm_create") =>
        LET N == Len(Manifest)
            off == Offs
            starts == Starts
            tok == init_params[3]
            own == np_prod(Manifest[2])
            cols == own \div Manifest[2][1]
        IN  /\ N >= 2
            /\ Len(init_params) = N + 2
            /\ init_params[1].shape = <<NUM_SEGMENTS, OPENAI_DIM>>
            /\ AllOfKind(init_params[1].data, "zeros", NUM_SEGMENTS * OPENAI_DIM)
            /\ Len(init_params[N + 2].shape) = 1
            /\ AllOfKind(init_params[N + 2].data, "zeros", init_params[N + 2].shape[1])
            /\ \A k \in (1..N) \ {2} :
                  /\ init_params[k + 1].shape = Manifest[k]
                  /\ IsSlice(starts, init_params[k + 1].data, off[k], np_prod(Manifest[k]))
            /\ tok.shape = [Manifest[2] EXCEPT ![1] = @ + SPECIAL_COUNT]
            /\ Len(tok.data) >= 2
            /\ IsSlice(starts, ButLast(tok.data), off[2], own)
            /\ tok.data[Len(tok.data)] = Run("randn", 0, 0, SPECIAL_COUNT * cols)

\* The list assembled from the full-size checkpoint, before create_model.
C3_Witness ==
    /\ InLoad /\ pc = "lm_create"
    /\ Len(Manifest) = 2 + 12 * OPENAI_LAYERS
    /\ Len(init_params) = Len(Manifest) + 2

(***************************************************************************)
(* C4.  create_model with embedding_dim % num_heads = 0 does not fail, and *)
(* the model's outputs have shapes (batch, max_len, embedding_dim) and     *)
(* (batch, max_len, vocab_size), the batch size left open; every encoder   *)
(* layer keeps the shape of its input, and SelfAttention maps              *)
(* (batch, seq, 3 * n_state) to (batch, seq, n_state), with a mask and     *)
(* without.                                                                *)
(***************************************************************************)
C4_OutputShapes ==
    /\ (args.num_heads > 0 /\ Divisible) => ~(pc = "error" /\ err.at = "create_model")
    /\ model.exists =>
          /\ tensors[model.outputs[1]].shape = <<NoneDim, args.max_len, args.embedding_dim>>
          /\ tensors[model.outputs[2]].shape = <<NoneDim, args.max_len, args.vocab_size>>
    /\ \A t \in 1..Len(tensors) :
          /\ tensors[t].layer = "ln_2" =>
                /\ tensors[t].shape = tensors[LayerInput(tensors[t].lid)].shape
                /\ tensors[t].shape = <<NoneDim, args.max_len, args.embedding_dim>>
          /\ tensors[t].layer = "self_attention" =>
                LET s == tensors[tensors[t].inputs[1]].shape
                IN  /\ s = <<NoneDim, args.max_len, 3 * args.embedding_dim>>
                    /\ tensors[t].shape = <<NoneDim, args.max_len, args.embedding_dim>>

\* A model of two layers and two heads, with a mask.
C4_Witness ==
    /\ call = "create_model" /\ model.exists /\ ~args.ignore_mask
    /\ args.num_layers = 2 /\ args.num_heads = 2 /\ args.embedding_dim = 4
    /\ args.vocab_size = 2 /\ args.max_len = 2

(***************************************************************************)
(* C5.  Constructing a MultiHeadAttention (an EncoderLayer) with           *)
(* n_state % n_head # 0 fails with an AssertionError before any of the     *)
(* layer's sub-layers is created, and nothing is returned; with            *)
(* n_state % n_head = 0 the construction does not fail.                    *)
(***************************************************************************)
C5_DivisibilityAssertedFirst ==
    /\ (pc = "error" /\ err.at = "create_model") =>
          /\ err.type = "AssertionError"
          /\ ~Divisible
          /\ \A k \in 1..Len(layers) : layers[k].lid # i
          /\ \A t \in 1..Len(tensors) : tensors[t].lid # i
          /\ ~model.exists
    /\ \A k \in 1..Len(layers) : layers[k].lid >= 0 => Divisible

\* The first construction of a two-layer stack fails.
C5_Witness ==
    /\ pc = "error" /\ err.type = "AssertionError" /\ err.at = "create_model"
    /\ args.num_layers = 2 /\ i = 0

(***************************************************************************)
(* C6.  Every encoder layer is applied in post-norm order:                 *)
(* a = c_attn_proj(self_attention(c_attn(x)));                             *)
(* n = ln_1(ln_1_add([x, ln_1_drop(a)]));                                  *)
(* f = c_ffn_proj(gelu(c_fc(n)));                                          *)
(* out = ln_2(ln_2_add([n, ln_2_drop(f)])): each normalization after its   *)
(* residual addition, the second residual taken from n.                    *)
(***************************************************************************)
C6_PostNormOrder ==
    LET done == {t \in 1..Len(tensors) : tensors[t].lid >= 0 /\ tensors[t].lid < i}
        Is(t, l, name) == tensors[t].lid = l /\ tensors[t].layer = name
        IsInput(t, l) == IF l = 0 THEN Is(t, -1, "Embedding") ELSE Is(t, l - 1, "ln_2")
    IN  /\ Cardinality(done) = 12 * i
        /\ Cardinality({<<tensors[t].lid, tensors[t].layer>> : t \in done}) = 12 * i
        /\ i >= 1 => Is(x, i - 1, "ln_2")
        /\ \A t \in done :
              LET l == tensors[t].lid
                  in == tensors[t].inputs
              IN  CASE tensors[t].layer = "c_attn" ->
                         Len(in) = 1 /\ IsInput(in[1], l)
                    [] tensors[t].layer = "self_attention" ->
                         Len(in) >= 1 /\ Is(in[1], l, "c_attn")
                    [] tensors[t].layer = "c_attn_proj" ->
                         Len(in) = 1 /\ Is(in[1], l, "self_attention")
                    [] tensors[t].layer = "ln_1_drop" ->
                         Len(in) = 1 /\ Is(in[1], l, "c_attn_proj")
                    [] tensors[t].layer = "ln_1_add" ->
                         Len(in) = 2 /\ IsInput(in[1], l) /\ Is(in[2], l, "ln_1_drop")
                    [] tensors[t].layer = "ln_1" ->
                         Len(in) = 1 /\ Is(in[1], l, "ln_1_add")
                    [] tensors[t].layer = "c_fc" ->
                         Len(in) = 1 /\ Is(in[1], l, "ln_1")
                    [] tensors[t].layer = "gelu" ->
                         Len(in) = 1 /\ Is(in[1], l, "c_fc")
                    [] tensors[t].layer = "c_ffn_proj" ->
                         Len(in) = 1 /\ Is(in[1], l, "gelu")
                    [] tensors[t].layer = "ln_2_drop" ->
                         Len(in) = 1 /\ Is(in[1], l, "c_ffn_proj")
                    [] tensors[t].layer = "ln_2_add" ->
                         Len(in) = 2 /\ Is(in[1], l, "ln_1") /\ Is(in[2], l, "ln_2_drop")
                    [] tensors[t].layer = "ln_2" ->
                         Len(in) = 1 /\ Is(in[1], l, "ln_2_add")
                    [] OTHER -> FALSE

\* Two layers applied, the second on the output of the first.
C6_Witness ==
    /\ call = "create_model" /\ pc = "done" /\ i = 2 /\ updates = 0
    /\ tensors[x].lid = 1 /\ tensors[x].layer = "ln_2"
    /\ args.ignore_mask

(***************************************************************************)
(* C7.  The model's inputs are TokenInput, SegmentInput and, exactly when  *)
(* ignore_mask is not set, MaskInput, in that order; its outputs are the   *)
(* final hidden states and the logits.  Every SelfAttention layer is       *)
(* called on [projected x, mask] exactly when it was constructed with      *)
(* ignore_mask unset and on the projected tensor alone exactly when set,   *)
(* so the two dispatches never disagree; the mask is the same everywhere.  *)
(***************************************************************************)
C7_InputsAndMaskDispatch ==
    /\ err.type # "TypeError"
    /\ model.exists =>
          /\ Len(model.inputs) = IF args.ignore_mask THEN 2 ELSE 3
          /\ tensors[model.inputs[1]].layer = "TokenInput"
          /\ tensors[model.inputs[2]].layer = "SegmentInput"
          /\ ~args.ignore_mask => tensors[model.inputs[3]].layer = "MaskInput"
          /\ Len(model.outputs) = 2
          /\ model.outputs[1] = LayerInput(args.num_layers)
          /\ tensors[model.outputs[2]].layer = "TiedDecoderDistributed"
          /\ tensors[model.outputs[2]].inputs = <<model.outputs[1]>>
    /\ \A t \in 1..Len(tensors) :
          tensors[t].layer = "self_attention" =>
              LET l == layers[CHOOSE k \in 1..Len(layers) :
                                  /\ layers[k].lid = tensors[t].lid
                                  /\ layers[k].name = "self_attention"]
              IN  /\ l.ignore_mask = args.ignore_mask
                  /\ tensors[t].aslist = ~l.ignore_mask
                  /\ Len(tensors[t].inputs) = IF l.ignore_mask THEN 1 ELSE 2
                  /\ ~l.ignore_mask =>
                        /\ tensors[t].inputs[2] = mask
                        /\ tensors[mask].layer = "MaskInput"

\* A returned model whose two attention layers take the mask.
C7_Witness ==
    /\ call = "create_model" /\ pc = "done" /\ model.exists
    /\ ~args.ignore_mask /\ args.num_layers = 2 /\ Len(model.inputs) = 3

(***************************************************************************)
(* C8.  With F the ten archives in file order and off_k the element count  *)
(* of the first k manifest entries: whenever len(F) >= off_N the split     *)
(* yields exactly N parameters, the k-th being F[off_{k-1} .. off_k), and  *)
(* the reshape gives it the k-th manifest shape; what lies after off_N is  *)
(* dropped.                                                                *)
(***************************************************************************)
C8_SlicesOfTheArchives ==
    InLoad =>
        LET N == Len(Manifest)
            off == Offs
            starts == Starts
        IN  /\ (pc = "lm_reshape" /\ FLen >= off[N + 1]) =>
                  /\ Len(init_params) = N
                  /\ \A k \in 1..N :
                        /\ init_params[k].shape = <<np_prod(Manifest[k])>>
                        /\ IsSlice(starts, init_params[k].data, off[k], np_prod(Manifest[k]))
            /\ (pc = "error" /\ err.at = "reshape") => FLen < off[N + 1]
            /\ pc = "lm_special" =>
                  /\ FLen >= off[N + 1]
                  /\ Len(init_params) = N
                  /\ \A k \in 1..N :
                        /\ init_params[k].shape = Manifest[k]
                        /\ IsSlice(starts, init_params[k].data, off[k], np_prod(Manifest[k]))

\* A parameter that spans two archives, and a number left over after off_N.
C8_Witness ==
    /\ InLoad /\ pc = "lm_special" /\ FLen > Offs[Len(Manifest) + 1]
    /\ \E k \in 1..Len(init_params) : Len(init_params[k].data) >= 2

(***************************************************************************)
(* C9 as claimed.  Every model create_model returns has                    *)
(* embedding_dim % num_heads = 0, whatever num_layers >= 0 is.             *)
(***************************************************************************)
C9_Claimed_EveryModelDivisible ==
    (call = "create_model" /\ model.exists) => Divisible

(***************************************************************************)
(* C9 as amended.  Every model create_model returns with num_layers >= 1   *)
(* has embedding_dim % num_heads = 0: such a call with                     *)
(* embedding_dim % num_heads # 0 fails with the AssertionError in its      *)
(* first layer and returns no model.  With num_layers = 0 nothing checks   *)
(* the pair.                                                               *)
(***************************************************************************)
C9_ModelWithLayersDivisible ==
    (args.num_layers >= 1 /\ ~Divisible) =>
        /\ ~model.exists
        /\ i = 0
        /\ pc \in {"cm", "error"}
        /\ pc = "error" => err = [type |-> "AssertionError", at |-> "create_model"]

\* A one-layer call with 3 % 2 # 0 has failed.
C9_Witness ==
    /\ call = "create_model" /\ pc = "error" /\ err.type = "AssertionError"
    /\ args.num_layers = 1 /\ args.embedding_dim = 3 /\ args.num_heads = 2

(***************************************************************************)
(* C10 as claimed.  For every manifest, the length of the decoder bias,    *)
(* the vocab_size passed to create_model and the number of rows of the     *)
(* extended token embedding are equal.                                     *)
(***************************************************************************)
C10_Claimed_VocabularySizesAgree ==
    (Assembled /\ pc # "lm_create") =>
        /\ init_params[Len(init_params)].shape = <<args.vocab_size>>
        /\ init_params[3].shape[1] = args.vocab_size

(***************************************************************************)
(* C10 as amended.  The length of the decoder bias and the vocab_size      *)
(* passed to create_model are both 40478 + SPECIAL_COUNT, whatever the     *)
(* manifest; the extended token embedding has the manifest's row count     *)
(* plus SPECIAL_COUNT rows, which equals them exactly when the manifest    *)
(* gives the token embedding 40478 rows.                                   *)
(***************************************************************************)
C10_VocabularySizes ==
    (Assembled /\ pc # "lm_create") =>
        /\ init_params[Len(init_params)].shape = <<args.vocab_size>>
        /\ args.vocab_size = OPENAI_VOCAB + SPECIAL_COUNT
        /\ init_params[3].shape[1] = Manifest[2][1] + SPECIAL_COUNT
        /\ (init_params[3].shape[1] = args.vocab_size) <=> (Manifest[2][1] = OPENAI_VOCAB)

\* A manifest whose token embedding has another number of rows.
C10_Witness ==
    /\ Assembled /\ pc = "lm_check"
    /\ Manifest[2][1] # OPENAI_VOCAB
    /\ init_params[3].shape[1] # args.vocab_size

====
